---- MODULE Spec2Model ----
(***************************************************************************)
(* Fingerprint capture front end: the capture flow controller (App) and    *)
(* the camera acquisition component (Camera).                              *)
(*                                                                         *)
(* The controller is the App component with the method-selection step and  *)
(* the upload path (the superset variant); the camera is the Camera        *)
(* component it mounts in the camera view.  React state is modelled as the *)
(* committed state between two events: a handler's synchronous part, up to *)
(* its first await, is one step, and each resolution of an awaited promise *)
(* is one step of its own.                                                 *)
(*                                                                         *)
(* Strings are sequences of tokens.  The empty string is <<>>, and no      *)
(* token other than "fetch" contains the text "fetch", so that             *)
(* String.prototype.includes('fetch') is a membership test on tokens.      *)
(* MIME types are sequences of characters, so that startsWith is computed. *)
(***************************************************************************)
EXTENDS Integers, Sequences, FiniteSets, Bags, TLC

\* ------------------------------------------------------------------ bounds
\* Camera components that exist at the same time or have left a live track.
MaxMounts == 2
\* Requests sent to the processing endpoint in one session.
MaxRequests == 2
\* the constraint applications (applySettings) that may still be in progress
\* when the user operates a control of the Camera; one operation alone starts
\* up to three applications that overlap
MaxOverlap == 0

\* ----------------------------------------------------------------- strings
EmptyString == <<>>

Includes(s, tok) == \E i \in DOMAIN s : s[i] = tok

StartsWith(s, p) == Len(s) >= Len(p) /\ SubSeq(s, 1, Len(p)) = p

\* the sequence without its element i
RemoveAt(seq, i) == SubSeq(seq, 1, i - 1) \o SubSeq(seq, i + 1, Len(seq))

RECURSIVE Join(_, _)
\* Array.prototype.join on a sequence of strings
Join(strs, sep) ==
  IF strs = <<>> THEN EmptyString
  ELSE IF Len(strs) = 1 THEN strs[1]
  ELSE strs[1] \o sep \o Join(Tail(strs), sep)

\* --------------------------------------------------------------- data model
FingerType == {"index", "middle", "ring", "pinky", "thumb"}

View == {"method-selection", "selection", "camera", "upload", "loading", "result"}

\* The encoded stills the canvas can yield.
ImageData == {"png-frame"}

ImagePrefix == <<"i", "m", "a", "g", "e", "/">>

PngFile == [name |-> "print.png", type |-> ImagePrefix \o <<"p", "n", "g">>]
TextFile == [name |-> "notes.txt", type |-> <<"t", "e", "x", "t", "/", "p", "l", "a", "i", "n">>]
UntypedFile == [name |-> "blob.bin", type |-> <<>>]

\* What event.target.files?.[0] can be; NoFile is undefined (dialog cancelled).
NoFile == [name |-> "", type |-> <<"-">>]
Files == {PngFile, TextFile, UntypedFile}

\* ---------------------------------------------------------------- JSON
JNull == [t |-> "null"]
JStr(s) == [t |-> "string", v |-> s]
JNum(n) == [t |-> "number", v |-> n]
JArr(items) == [t |-> "array", v |-> items]
JObj(entries) == [t |-> "object", v |-> entries]
\* response.json() rejected: the body is not JSON
Unparsable == [t |-> "unparsable"]

\* JavaScript truthiness of a parsed JSON value
Truthy(j) ==
  CASE j.t = "null" -> FALSE
    [] j.t = "string" -> j.v # EmptyString
    [] j.t = "number" -> j.v # 0
    [] OTHER -> TRUE

\* typeof j === 'object' for a parsed JSON value (arrays and null included)
TypeofObject(j) == j.t \in {"object", "array", "null"}

NumToken(n) ==
  CASE n = 0 -> "0"
    [] n = 1 -> "1"
    [] n = 42 -> "42"
    [] OTHER -> "NaN"

\* String(value) for a value that is not an array
StringOf(j) ==
  CASE j.t = "null" -> <<"null">>
    [] j.t = "string" -> j.v
    [] j.t = "number" -> <<NumToken(j.v)>>
    [] j.t = "object" -> <<"[object Object]">>
    [] OTHER -> EmptyString

\* how Array.prototype.join renders one element: null renders empty
JoinElement(j) == IF j.t = "null" THEN EmptyString ELSE StringOf(j)

\* the values of Object.entries(errorData), in entry order; for an array the
\* entries are its elements
EntryValues(j) ==
  IF j.t = "object" THEN [i \in DOMAIN j.v |-> j.v[i][2]] ELSE j.v

\* .map(([key, value]) => Array.isArray(value) ? value.join(', ') : String(value))
EntryMessage(value) ==
  IF value.t = "array"
  THEN Join([i \in DOMAIN value.v |-> JoinElement(value.v[i])], <<", ">>)
  ELSE StringOf(value)

\* Object.entries(errorData).map(...).join('. ')
ErrorMessages(errorData) ==
  LET vals == EntryValues(errorData)
  IN Join([i \in DOMAIN vals |-> EntryMessage(vals[i])], <<". ">>)


\* ------------------------------------------------------------- HTTP replies
\* response.ok
Ok(status) == status >= 200 /\ status <= 299

Statuses == {200, 400, 404, 499, 500, 503}

FieldErrors ==
  JObj(<< <<"field", JArr(<<JStr(<<"error one">>), JStr(<<"error two">>)>>)>> >>)
TwoEntries ==
  JObj(<< <<"image", JArr(<<JStr(<<"too dark">>)>>)>>, <<"code", JNum(42)>> >>)
FetchDetail ==
  JObj(<< <<"detail", JStr(<<"could not ", "fetch", " image">>)>> >>)
EmptyObject == JObj(<<>>)
CaptureResult ==
  JObj(<< <<"message", JStr(<<"ok">>)>>,
          <<"data", JObj(<< <<"finger_type", JStr(<<"middle">>)>> >>)>> >>)

Bodies == {Unparsable, JNull, JStr(<<"Bad Gateway">>), FieldErrors, TwoEntries,
           FetchDetail, EmptyObject, CaptureResult}

\* every reply the endpoint can give
AllResponses == [status : Statuses, body : Bodies]

\* the replies the endpoint gives in a session: one of each way a reply is handled
Responses ==
  {[status |-> 200, body |-> CaptureResult], [status |-> 200, body |-> JNull],
   [status |-> 200, body |-> Unparsable], [status |-> 400, body |-> FieldErrors],
   [status |-> 500, body |-> Unparsable]}

\* error.message of the TypeError a failed fetch rejects with, per browser
TransportErrors == {<<"Failed to ", "fetch">>, <<"Load failed">>}

\* error.message of the SyntaxError response.json() rejects with
JsonSyntaxError == <<"Unexpected token in JSON">>

MsgNotConfigured == <<"API base URL is not configured">>
MsgFailed == <<"Failed to process fingerprint">>
MsgServerError == <<"Server error. Please try again later.">>
MsgRetry == <<"Failed to process fingerprint. Please try again.">>
MsgNetwork == <<"Network error. Please check your connection.">>
MsgSelectFile == <<"Please select an image file">>
MsgInvalidFile == <<"Please select a valid image file">>

\* Variant: the server-error message is for a status above 500
ResponseError_Above500(response) ==
  LET errorData == IF response.body = Unparsable THEN JNull ELSE response.body
  IN IF Truthy(errorData) /\ TypeofObject(errorData)
     THEN (IF ErrorMessages(errorData) # EmptyString
           THEN ErrorMessages(errorData) ELSE MsgFailed)
     ELSE IF response.status > 500 THEN MsgServerError
     ELSE MsgRetry

\* The message of the Error thrown for a response with !response.ok
ResponseError(response) ==
  LET errorData == IF response.body = Unparsable THEN JNull ELSE response.body
  IN IF Truthy(errorData) /\ TypeofObject(errorData)
     THEN (IF ErrorMessages(errorData) # EmptyString
           THEN ErrorMessages(errorData) ELSE MsgFailed)
     ELSE IF response.status >= 500 THEN MsgServerError
     ELSE MsgRetry

\* The catch block: the message set for an Error with the given message
CatchMessage(message) ==
  IF Includes(message, "fetch") THEN MsgNetwork ELSE message

\* What awaiting the response leads to: the payload stored on success, or
\* the message of the Error thrown
ResponseOutcome(response) ==
  IF ~Ok(response.status)
  THEN [ok |-> FALSE, message |-> ResponseError(response)]
  ELSE IF response.body = Unparsable
  THEN [ok |-> FALSE, message |-> JsonSyntaxError]
  ELSE [ok |-> TRUE, data |-> response.body]

\* ------------------------------------------------------------------- state
VARIABLES
  currentView,     \* App: the view rendered
  selectedFinger,  \* App: the finger type of the <select>
  capturedImage,   \* App: the still handed over by the camera, "" if none
  selectedFile,    \* App: the file chosen in the upload view, NoFile if none
  result,          \* App: the payload of the last successful reply, JNull if none
  error,           \* App: the message shown, EmptyString if none
  baseUrl,         \* import.meta.env.VITE_API_BASE_URL
  handlers,        \* the invocations of handleCapture / handleUploadSubmit suspended at an await,
                   \* each with the view it was invoked in (from)
  requestsSent,    \* number of POSTs made to the processing endpoint
  chosenFinger,    \* the option the user picked last in a finger <select>
  cams,            \* the Camera components that are mounted, are still in startCamera
                   \* or have left a live track, in mount order
  cleanupSeesRef,  \* whether videoRef.current is still set when the unmount cleanup runs
  lastOp,          \* the App handler, or continuation of one, that ran last
  reply,           \* the reply the endpoint has ready for the request in flight,
                   \* NoReply where the reply is left open until it arrives
  settings,        \* Camera: isFlashOn, isMacroMode, exposureTime, iso, exposureCompensation
  apps,            \* Camera: the bag of invocations of applySettings suspended at an
                   \* await, each with the state its closure captured
  applied,         \* the constraints passed last to applyConstraints of the track
  imageCapture,    \* whether window.ImageCapture exists (imageCaptureRef.current is set)
  lastSettled      \* how the await of a constraint application that settled last
                   \* ended: "resolved" or "rejected", "none" before the first

vars == <<currentView, selectedFinger, capturedImage, selectedFile, result, error,
          baseUrl, handlers, requestsSent, chosenFinger, cams, cleanupSeesRef, lastOp,
          reply, settings, apps, applied, imageCapture, lastSettled>>

appVars == <<currentView, selectedFinger, capturedImage, selectedFile, result, error>>

\* what no step of the App flow changes
auxVars == <<reply, settings, apps, applied, imageCapture, lastSettled>>

\* what the steps of the App flow and of startCamera leave alone, but a step
\* of the Camera's controls may change
settingsVars == <<settings, apps, applied>>

NoReply == [status |-> 0, body |-> Unparsable]

NoBaseUrl == ""
BaseUrls == {NoBaseUrl, "https://api.example"}

\* ----------------------------------------------------------------- Camera
\* One Camera component right after its mount effect has called startCamera,
\* which runs up to the await of enumerateDevices.
NewCamera ==
  [mounted |-> TRUE,        \* the component is in the tree
   videoRef |-> TRUE,       \* videoRef.current is the <video> element
   srcObject |-> FALSE,     \* the element's srcObject is the acquired stream
   track |-> "none",        \* readyState of the acquired stream's track: none, live, ended
   trackRef |-> FALSE,      \* trackRef.current is the acquired track
   pc |-> "enumerateDevices", \* where startCamera is: an await, "done" or "failed"
   cameras |-> "unknown",   \* cameras.length once enumerateDevices has resolved: none, some
   hasPermission |-> FALSE,
   error |-> EmptyString]

\* track.stop() on every track of the element's srcObject, if it has one
StopTracks(c) ==
  IF c.videoRef /\ c.srcObject /\ c.track = "live"
  THEN [c EXCEPT !.track = "ended"] ELSE c

\* The cleanup of the mount effect, then the removal of the component, whose
\* React state is discarded with it.
\* The cleanup reads videoRef.current: it is the element if React runs the
\* cleanup before it detaches refs, and null if it detaches refs first.
UnmountCamera(c) ==
  LET seen == [c EXCEPT !.videoRef = c.videoRef /\ cleanupSeesRef]
      stopped == StopTracks(seen)
  IN [stopped EXCEPT !.mounted = FALSE, !.videoRef = FALSE,
                     !.hasPermission = FALSE, !.error = EmptyString]

\* A component that is unmounted and whose startCamera has returned can no
\* longer be reached by any code: it is garbage
Garbage(c) == ~c.mounted /\ c.pc \in {"done", "failed"}

\* What is left of the garbage is the tracks it left live: they keep the
\* device busy
Remains(c) ==
  IF Garbage(c)
  THEN [c EXCEPT !.pc = "done", !.srcObject = FALSE, !.trackRef = FALSE]
  ELSE c

IsKept(c) == ~Garbage(c) \/ c.track = "live"

Collect(cs) == SelectSeq([i \in DOMAIN cs |-> Remains(cs[i])], IsKept)

\* The cams after the controller commits view v
SetCurrentView(v) ==
  IF currentView = "camera" /\ v # "camera"
  THEN Collect([i \in DOMAIN cams |->
                 IF cams[i].mounted THEN UnmountCamera(cams[i]) ELSE cams[i]])
  ELSE IF currentView # "camera" /\ v = "camera"
  THEN Append(cams, NewCamera)
  ELSE cams

\* setState of a component that is no longer mounted is ignored
SetCameraState(c, permission, message) ==
  IF c.mounted
  THEN [c EXCEPT !.hasPermission = permission, !.error = message]
  ELSE c

CameraErrorNames == {"NotAllowedError", "NotFoundError", "NotReadableError", "AbortError"}

MsgNoCameraDetected == <<"No camera detected on this device">>
MsgAborted == <<"The operation was aborted">>

\* The message the catch block of startCamera builds
CameraErrorMessage(name, message) ==
  <<"Error accessing camera. ">> \o
    (CASE name = "NotAllowedError" -> <<"Please grant camera permissions.">>
       [] name = "NotFoundError" -> <<"No camera found on this device.">>
       [] name = "NotReadableError" -> <<"Camera is already in use.">>
       [] OTHER -> message)

\* The catch block of startCamera
StartCameraCatch(c, name, message) ==
  [SetCameraState(c, FALSE, CameraErrorMessage(name, message)) EXCEPT !.pc = "failed"]

Suspended(i, pc) == i \in DOMAIN cams /\ cams[i].pc = pc

\* await enumerateDevices() resolves with or without a video input
\* enumerateDevices without the check of cameras.length
EnumerateDevicesResolve_NoLengthCheck(i, hasCamera) ==
  /\ Suspended(i, "enumerateDevices")
  /\ cams' = Collect([cams EXCEPT ![i] =
       [StopTracks(cams[i]) EXCEPT !.pc = "getUserMedia",
                                   !.cameras = IF hasCamera THEN "some" ELSE "none"]])
  /\ UNCHANGED <<appVars, baseUrl, handlers, requestsSent, chosenFinger, cleanupSeesRef, lastOp, auxVars>>

EnumerateDevicesResolve(i, hasCamera) ==
  /\ Suspended(i, "enumerateDevices")
  /\ cams' = Collect([cams EXCEPT ![i] =
       IF ~hasCamera
       THEN [StartCameraCatch(cams[i], "Error", MsgNoCameraDetected) EXCEPT !.cameras = "none"]
       ELSE [StopTracks(cams[i]) EXCEPT !.pc = "getUserMedia", !.cameras = "some"]])
  /\ UNCHANGED <<appVars, baseUrl, handlers, requestsSent, chosenFinger, cleanupSeesRef, lastOp, auxVars>>

\* await getUserMedia() resolves with a stream or rejects
GetUserMediaResolve(i, outcome) ==
  /\ Suspended(i, "getUserMedia")
  /\ cams' = Collect([cams EXCEPT ![i] =
       IF outcome # "stream"
       THEN StartCameraCatch(cams[i], outcome, MsgAborted)
       ELSE IF cams[i].videoRef
       THEN [cams[i] EXCEPT !.track = "live", !.trackRef = TRUE,
                            !.srcObject = TRUE, !.pc = "play"]
       ELSE [cams[i] EXCEPT !.track = "live", !.trackRef = TRUE, !.pc = "done"]])
  /\ UNCHANGED <<appVars, baseUrl, handlers, requestsSent, chosenFinger, cleanupSeesRef, lastOp, auxVars>>

\* await video.play() resolves or rejects: what startCamera does to the
\* component
PlayStep(i, outcome) ==
  /\ Suspended(i, "play")
  /\ cams' = Collect([cams EXCEPT ![i] =
       IF outcome # "playing"
       THEN StartCameraCatch(cams[i], outcome, MsgAborted)
       ELSE [SetCameraState(cams[i], TRUE, EmptyString) EXCEPT !.pc = "applySettings"]])
  /\ UNCHANGED <<appVars, baseUrl, handlers, requestsSent, chosenFinger, cleanupSeesRef, lastOp>>

\* await video.play() resolves or rejects, the constraints of the
\* applySettings that follows left out
PlayResolve(i, outcome) == PlayStep(i, outcome) /\ UNCHANGED auxVars

\* await applySettings() returns, once the invocation has run to its end; it
\* catches every failure itself
ApplySettingsResolve(i) ==
  /\ Suspended(i, "applySettings")
  /\ \A app \in BagToSet(apps) : app.origin # "startCamera"
  /\ cams' = Collect([cams EXCEPT ![i].pc = "done"])
  /\ UNCHANGED <<appVars, baseUrl, handlers, requestsSent, chosenFinger, cleanupSeesRef, lastOp, auxVars>>

\* ------------------------------------------------------- Camera: settings
\* exposure times in tenths, so that 25 is the 2.5 of the source
ExposureTimes == {25, 100}
IsoValues == {400, 800}

\* Variant: the flash is off until it is switched on
InitialSettings_FlashOff ==
  [isFlashOn |-> FALSE, isMacroMode |-> TRUE, exposureTime |-> 25,
   iso |-> 400, exposureCompensation |-> 0]

\* The initial values of useState
InitialSettings ==
  [isFlashOn |-> TRUE, isMacroMode |-> TRUE, exposureTime |-> 25,
   iso |-> 400, exposureCompensation |-> 0]

\* { advanced: [{ torch: isFlashOn }] }
TorchConstraint(s) == IF s.isFlashOn THEN "on" ELSE "off"

\* The exposure constraints applySettings passes for the state of its closure
ExposureConstraints(s) ==
  IF s.isMacroMode
  THEN [exposureMode |-> "manual", exposureTime |-> s.exposureTime,
        exposureCompensation |-> s.exposureCompensation, iso |-> s.iso]
  ELSE [exposureMode |-> "continuous", exposureCompensation |-> 0]

\* No constraint has been passed to the track yet
NoneApplied ==
  [torch |-> "none", exposure |-> [exposureMode |-> "none"], by |-> "none"]

\* applySettings() of the render with state s, called by origin, on top of
\* the applications as and the track's constraints t: it runs up to the await
\* of the torch constraint
RunApplySettings(state, s, origin) ==
  [as |-> state.as (+) SetToBag({[closure |-> s, pc |-> "torch", origin |-> origin]}),
   t |-> [state.t EXCEPT !.torch = TorchConstraint(s)]]

\* The effects that run after a render in which the state went from old to
\* new: the one on [isFlashOn, isMacroMode], then the one on [exposureTime, iso]
RunEffects(state, old, new, hasPermission) ==
  LET first == IF hasPermission /\ (old.isFlashOn # new.isFlashOn \/
                                    old.isMacroMode # new.isMacroMode)
               THEN RunApplySettings(state, new, "effect") ELSE state
  IN IF hasPermission /\ new.isMacroMode /\
        (old.exposureTime # new.exposureTime \/ old.iso # new.iso)
     THEN RunApplySettings(first, new, "effect") ELSE first

\* The flash, mode and capture buttons: rendered by the mounted Camera once
\* it has permission
ControlsRendered(i) ==
  /\ i \in DOMAIN cams
  /\ cams[i].mounted
  /\ cams[i].hasPermission

\* await video.play() resolves or rejects; on success startCamera calls the
\* applySettings of the first render
PlayResolveApply(i, outcome) ==
  /\ PlayStep(i, outcome)
  /\ IF outcome = "playing" /\ cams[i].trackRef
     THEN LET run == RunApplySettings([as |-> apps, t |-> applied],
                                      InitialSettings, "startCamera")
          IN apps' = run.as /\ applied' = run.t
     ELSE UNCHANGED <<apps, applied>>
  /\ UNCHANGED <<reply, settings, imageCapture, lastSettled>>

\* await applySettings() of toggleMacroMode: the applySettings of the render
\* the button was clicked in, whose closure holds the state s of that render
ToggleApplication(state, s, newMacroMode) ==
  RunApplySettings(state, s,
    IF newMacroMode THEN "toggleMacroMode:macro" ELSE "toggleMacroMode:auto")

\* onClick of the mode button
toggleMacroMode(i) ==
  /\ ControlsRendered(i)
  /\ BagCardinality(apps) <= MaxOverlap
  /\ LET newMacroMode == ~settings.isMacroMode
         new == IF newMacroMode
                THEN [settings EXCEPT !.isMacroMode = TRUE, !.exposureTime = 25,
                                      !.iso = 400, !.exposureCompensation = 0]
                ELSE [settings EXCEPT !.isMacroMode = FALSE]
         called == ToggleApplication([as |-> apps, t |-> applied], settings, newMacroMode)
         run == RunEffects(called, settings, new, cams[i].hasPermission)
     IN /\ settings' = new
        /\ apps' = run.as
        /\ applied' = run.t
  /\ UNCHANGED <<appVars, baseUrl, handlers, requestsSent, chosenFinger, cams,
                 cleanupSeesRef, lastOp, reply, imageCapture, lastSettled>>

\* A state change made by a control other than the mode button, and the
\* effects of the render that follows
SetSettings(i, new) ==
  /\ ControlsRendered(i)
  /\ BagCardinality(apps) <= MaxOverlap
  /\ LET run == RunEffects([as |-> apps, t |-> applied], settings, new,
                           cams[i].hasPermission)
     IN /\ settings' = new
        /\ apps' = run.as
        /\ applied' = run.t
  /\ UNCHANGED <<appVars, baseUrl, handlers, requestsSent, chosenFinger, cams,
                 cleanupSeesRef, lastOp, reply, imageCapture, lastSettled>>

\* onClick of the flash button
toggleFlash(i) == SetSettings(i, [settings EXCEPT !.isFlashOn = ~settings.isFlashOn])

\* onChange of the ISO slider, which is rendered in macro mode
ChangeIso(i, value) ==
  /\ settings.isMacroMode
  /\ value # settings.iso
  /\ SetSettings(i, [settings EXCEPT !.iso = value])

\* onChange of the shutter speed slider, which is rendered in macro mode
ChangeExposureTime(i, value) ==
  /\ settings.isMacroMode
  /\ value # settings.exposureTime
  /\ SetSettings(i, [settings EXCEPT !.exposureTime = value])

\* An application leaves the bag when applySettings returns
Returned(app) == apps (-) SetToBag({app})

\* An application goes on to its next await
Proceeds(app, pc) == Returned(app) (+) SetToBag({[app EXCEPT !.pc = pc]})

\* Variant: one try block around all constraints, so that a rejected torch
\* constraint ends the application with the message of the outer catch
TorchSettles_OneTryBlock(app, outcome) ==
  /\ BagIn(app, apps)
  /\ app.pc = "torch"
  /\ IF outcome = "rejected"
     THEN /\ apps' = Returned(app)
          /\ cams' = [i \in DOMAIN cams |->
               SetCameraState(cams[i], cams[i].hasPermission,
                 <<"Some camera settings might not be supported on your device.">>)]
          /\ UNCHANGED applied
     ELSE /\ apps' = Proceeds(app, "exposure")
          /\ applied' = [applied EXCEPT !.exposure = ExposureConstraints(app.closure),
                                        !.by = app.origin]
          /\ UNCHANGED cams
  /\ lastSettled' = outcome
  /\ UNCHANGED <<appVars, baseUrl, handlers, requestsSent, chosenFinger,
                 cleanupSeesRef, lastOp, reply, settings, imageCapture>>

\* The await of the torch constraint settles; a rejection is caught and
\* logged. The exposure constraints of the closure are passed next.
TorchSettles(app, outcome) ==
  /\ BagIn(app, apps)
  /\ app.pc = "torch"
  /\ apps' = Proceeds(app, "exposure")
  /\ applied' = [applied EXCEPT !.exposure = ExposureConstraints(app.closure),
                                !.by = app.origin]
  /\ lastSettled' = outcome
  /\ UNCHANGED <<appVars, baseUrl, handlers, requestsSent, chosenFinger, cams,
                 cleanupSeesRef, lastOp, reply, settings, imageCapture>>

\* The await of the exposure constraints settles; a rejection is caught and
\* logged. In macro mode the options of the ImageCapture are set next, if
\* there is one.
ExposureSettles(app, outcome) ==
  /\ BagIn(app, apps)
  /\ app.pc = "exposure"
  /\ apps' = IF outcome = "resolved" /\ app.closure.isMacroMode /\ imageCapture
             THEN Proceeds(app, "setOptions")
             ELSE Returned(app)
  /\ lastSettled' = outcome
  /\ UNCHANGED <<appVars, baseUrl, handlers, requestsSent, chosenFinger, cams,
                 cleanupSeesRef, lastOp, reply, settings, applied, imageCapture>>

\* The await of imageCapture.setOptions settles; a rejection is caught and
\* logged
SetOptionsSettles(app, outcome) ==
  /\ BagIn(app, apps)
  /\ app.pc = "setOptions"
  /\ apps' = Returned(app)
  /\ lastSettled' = outcome
  /\ UNCHANGED <<appVars, baseUrl, handlers, requestsSent, chosenFinger, cams,
                 cleanupSeesRef, lastOp, reply, settings, applied, imageCapture>>

\* ------------------------------------------------------ App: rendered controls
\* The camera whose controls are on screen, 0 if there is none
MountedCamera ==
  IF \E i \in DOMAIN cams : cams[i].mounted
  THEN CHOOSE i \in DOMAIN cams : cams[i].mounted ELSE 0

\* Variant: the controls are rendered whether or not the camera has permission
CaptureRendered_WithoutPermission ==
  /\ currentView = "camera"
  /\ MountedCamera # 0

\* The Capture button: rendered by a mounted Camera that has permission
CaptureRendered ==
  /\ currentView = "camera"
  /\ MountedCamera # 0
  /\ cams[MountedCamera].hasPermission

\* Variant: the button is not taken off the screen while a submission is loading
ProcessImageEnabled_WhileLoading ==
  currentView \in {"upload", "loading"} /\ selectedFile # NoFile

\* The Process Image button: rendered in the upload view, disabled without a file
ProcessImageEnabled == currentView = "upload" /\ selectedFile # NoFile

\* Variant: a Back button is on screen while a submission is loading
BackRendered_WhileLoading == currentView \in {"selection", "camera", "upload", "loading"}

\* The Back buttons of the selection, camera and upload views
BackRendered == currentView \in {"selection", "camera", "upload"}

\* The Back to Start button: the result view renders only with a truthy result
RetakeRendered == currentView = "result" /\ Truthy(result)

\* ---------------------------------------------------------- App: navigation
handleSelectLiveCapture ==
  /\ currentView = "method-selection"
  /\ currentView' = "selection"
  /\ error' = EmptyString
  /\ cams' = SetCurrentView("selection")
  /\ lastOp' = "handleSelectLiveCapture"
  /\ UNCHANGED <<selectedFinger, capturedImage, selectedFile, result, baseUrl,
                 handlers, requestsSent, chosenFinger, cleanupSeesRef, auxVars>>

\* Variant: choosing the upload leaves the error message as it was
handleSelectUpload_KeepsError ==
  /\ currentView = "method-selection"
  /\ currentView' = "upload"
  /\ cams' = SetCurrentView("upload")
  /\ lastOp' = "handleSelectUpload"
  /\ UNCHANGED <<selectedFinger, capturedImage, selectedFile, result, error, baseUrl,
                 handlers, requestsSent, chosenFinger, cleanupSeesRef, auxVars>>

handleSelectUpload ==
  /\ currentView = "method-selection"
  /\ currentView' = "upload"
  /\ error' = EmptyString
  /\ cams' = SetCurrentView("upload")
  /\ lastOp' = "handleSelectUpload"
  /\ UNCHANGED <<selectedFinger, capturedImage, selectedFile, result, baseUrl,
                 handlers, requestsSent, chosenFinger, cleanupSeesRef, auxVars>>

handleProceedToCamera ==
  /\ currentView = "selection"
  /\ Len(cams) < MaxMounts
  /\ currentView' = "camera"
  /\ error' = EmptyString
  /\ cams' = SetCurrentView("camera")
  /\ lastOp' = "handleProceedToCamera"
  /\ UNCHANGED <<selectedFinger, capturedImage, selectedFile, result, baseUrl,
                 handlers, requestsSent, chosenFinger, cleanupSeesRef, auxVars>>

\* Variant: every Back button leads to the method selection
BackTarget_MethodSelection(view) ==
  IF view \in {"selection", "camera", "upload"} THEN "method-selection" ELSE view

\* Where the Back button of a view leads
BackTarget(view) ==
  CASE view = "selection" -> "method-selection"
    [] view = "camera" -> "selection"
    [] view = "upload" -> "method-selection"
    [] OTHER -> view

\* onClick of a Back button: setCurrentView and nothing else
Back ==
  /\ BackRendered
  /\ currentView' = BackTarget(currentView)
  /\ cams' = SetCurrentView(BackTarget(currentView))
  /\ lastOp' = "back"
  /\ UNCHANGED <<selectedFinger, capturedImage, selectedFile, result, error, baseUrl,
                 handlers, requestsSent, chosenFinger, cleanupSeesRef, auxVars>>

\* onChange of the finger <select> of the selection or the upload view
SelectFinger(f) ==
  /\ currentView \in {"selection", "upload"}
  /\ selectedFinger' = f
  /\ chosenFinger' = f
  /\ lastOp' = "selectFinger"
  /\ UNCHANGED <<currentView, capturedImage, selectedFile, result, error, baseUrl,
                 handlers, requestsSent, cams, cleanupSeesRef, auxVars>>

handleFileSelect(file) ==
  /\ currentView = "upload"
  /\ IF file # NoFile /\ StartsWith(file.type, ImagePrefix)
     THEN selectedFile' = file /\ error' = EmptyString
     ELSE selectedFile' = selectedFile /\ error' = MsgInvalidFile
  /\ lastOp' = IF file # NoFile /\ StartsWith(file.type, ImagePrefix)
               THEN "handleFileSelect:accepted" ELSE "handleFileSelect:rejected"
  /\ UNCHANGED <<currentView, selectedFinger, capturedImage, result, baseUrl,
                 handlers, requestsSent, chosenFinger, cams, cleanupSeesRef, auxVars>>

\* Variant: the retake of the App without an upload path, which has no
\* selected file to clear
handleRetake_KeepsFile ==
  /\ RetakeRendered
  /\ result' = JNull
  /\ capturedImage' = ""
  /\ error' = EmptyString
  /\ currentView' = "method-selection"
  /\ cams' = SetCurrentView("method-selection")
  /\ lastOp' = "handleRetake"
  /\ UNCHANGED <<selectedFinger, selectedFile, baseUrl, handlers, requestsSent,
                 chosenFinger, cleanupSeesRef, auxVars>>

handleRetake ==
  /\ RetakeRendered
  /\ result' = JNull
  /\ capturedImage' = ""
  /\ selectedFile' = NoFile
  /\ error' = EmptyString
  /\ currentView' = "method-selection"
  /\ cams' = SetCurrentView("method-selection")
  /\ lastOp' = "handleRetake"
  /\ UNCHANGED <<selectedFinger, baseUrl, handlers, requestsSent, chosenFinger,
                 cleanupSeesRef, auxVars>>

\* ---------------------------------------------------------- App: submission
\* new File([blob], 'fingerprint.png', { type: 'image/png' })
CapturedFile == [name |-> "fingerprint.png", type |-> ImagePrefix \o <<"p", "n", "g">>]

\* Variant: the request carries the default finger type, not the selected one
FormData_DefaultFinger(finger, image) ==
  [finger_type |-> "index", original_image |-> image]

\* The FormData of a handler invocation: the closure's selectedFinger and the image
FormData(finger, image) == [finger_type |-> finger, original_image |-> image]

\* Variant: both catch blocks return to the camera view
OriginView_AlwaysCamera(kind) == "camera"

\* The acquisition view a handler returns to in its catch block
OriginView(kind) == IF kind = "capture" THEN "camera" ELSE "upload"

\* The requests to the processing endpoint that have not resolved yet
InFlight == {i \in DOMAIN handlers : handlers[i].pc = "response"}

\* Variant: the base URL is used without the check
NotConfigured_Unchecked == FALSE

\* if (!baseUrl)
NotConfigured == baseUrl = NoBaseUrl

\* Variant: the handler does not return early without a file
FileMissing_Unchecked == FALSE

\* if (!selectedFile)
FileMissing == selectedFile = NoFile

\* The body of handleUploadSubmit up to its first await
handleUploadSubmit ==
  /\ IF FileMissing
     THEN /\ error' = MsgSelectFile
          /\ lastOp' = "handleUploadSubmit:noFile"
          /\ UNCHANGED <<currentView, cams, handlers, requestsSent>>
     ELSE IF NotConfigured
     THEN /\ error' = CatchMessage(MsgNotConfigured)
          /\ currentView' = OriginView("upload")
          /\ cams' = SetCurrentView(OriginView("upload"))
          /\ lastOp' = "handleUploadSubmit:notConfigured"
          /\ UNCHANGED <<handlers, requestsSent>>
     ELSE /\ error' = EmptyString
          /\ currentView' = "loading"
          /\ cams' = SetCurrentView("loading")
          /\ handlers' = Append(handlers,
               [kind |-> "upload", pc |-> "response", from |-> currentView,
                formData |-> FormData(selectedFinger, selectedFile)])
          /\ requestsSent' = requestsSent + 1
          /\ lastOp' = "handleUploadSubmit:sent"
  /\ UNCHANGED <<selectedFinger, capturedImage, selectedFile, result, baseUrl,
                 chosenFinger, cleanupSeesRef, auxVars>>

\* onClick of the Process Image button
ClickProcessImage ==
  /\ ProcessImageEnabled
  /\ requestsSent < MaxRequests
  /\ handleUploadSubmit

\* The body of handleCapture up to its first await (the data-URL fetch)
handleCapture(imageData) ==
  /\ capturedImage' = imageData
  /\ currentView' = "loading"
  /\ error' = EmptyString
  /\ cams' = SetCurrentView("loading")
  /\ handlers' = Append(handlers,
       [kind |-> "capture", pc |-> "blob", from |-> currentView,
        formData |-> FormData(selectedFinger, CapturedFile)])
  /\ lastOp' = "handleCapture"
  /\ UNCHANGED <<selectedFinger, selectedFile, result, baseUrl, requestsSent,
                 chosenFinger, cleanupSeesRef, auxVars>>

\* Variant: captureImage reports a missing 2d context through setError
captureImage_ReportsNoContext(imageData, hasContext) ==
  /\ CaptureRendered
  /\ Len(cams) < MaxMounts
  /\ requestsSent < MaxRequests
  /\ IF cams[MountedCamera].videoRef /\ hasContext
     THEN handleCapture(imageData)
     ELSE /\ lastOp' = "captureImage:noContext"
          /\ cams' = [cams EXCEPT ![MountedCamera].error = <<"Could not capture the image">>]
          /\ UNCHANGED <<appVars, baseUrl, handlers, requestsSent, chosenFinger,
                         cleanupSeesRef, auxVars>>

\* onClick of the Capture button: captureImage, which calls onCapture unless
\* the canvas gives no 2d context
captureImage(imageData, hasContext) ==
  /\ CaptureRendered
  /\ Len(cams) < MaxMounts
  /\ requestsSent < MaxRequests
  /\ IF cams[MountedCamera].videoRef /\ hasContext
     THEN handleCapture(imageData)
     ELSE /\ lastOp' = "captureImage:noContext"
          /\ UNCHANGED <<appVars, baseUrl, handlers, requestsSent, chosenFinger,
                         cams, cleanupSeesRef, auxVars>>

\* The catch block of either handler, for an Error with the given message
SubmitCatch(i, message) ==
  /\ error' = CatchMessage(message)
  /\ currentView' = OriginView(handlers[i].kind)
  /\ cams' = SetCurrentView(OriginView(handlers[i].kind))
  /\ handlers' = RemoveAt(handlers, i)
  /\ UNCHANGED <<selectedFinger, capturedImage, selectedFile, result>>

\* Variant: the image that was submitted is let go with the reply
SubmitSuccess_DiscardsImage(i, data) ==
  /\ result' = data
  /\ currentView' = "result"
  /\ cams' = SetCurrentView("result")
  /\ handlers' = RemoveAt(handlers, i)
  /\ capturedImage' = ""
  /\ selectedFile' = NoFile
  /\ UNCHANGED <<selectedFinger, error>>

\* The end of the try block of either handler: setResult(data) and
\* setCurrentView('result'), nothing else
SubmitSuccess(i, data) ==
  /\ result' = data
  /\ currentView' = "result"
  /\ cams' = SetCurrentView("result")
  /\ handlers' = RemoveAt(handlers, i)
  /\ UNCHANGED <<selectedFinger, capturedImage, selectedFile, error>>

\* handleCapture resumes after the data-URL fetch: the blob is there, and the
\* request is built and sent
BlobResolve(i) ==
  /\ i \in DOMAIN handlers
  /\ handlers[i].pc = "blob"
  /\ IF NotConfigured
     THEN /\ SubmitCatch(i, MsgNotConfigured)
          /\ lastOp' = "handleCapture:notConfigured"
          /\ UNCHANGED requestsSent
     ELSE /\ handlers' = [handlers EXCEPT ![i].pc = "response"]
          /\ requestsSent' = requestsSent + 1
          /\ lastOp' = "handleCapture:sent"
          /\ UNCHANGED <<appVars, cams>>
  /\ UNCHANGED <<baseUrl, chosenFinger, cleanupSeesRef, auxVars>>

\* The data-URL fetch rejects
BlobReject(i, message) ==
  /\ i \in DOMAIN handlers
  /\ handlers[i].pc = "blob"
  /\ SubmitCatch(i, message)
  /\ lastOp' = "handleCapture:blobFailed"
  /\ UNCHANGED <<baseUrl, requestsSent, chosenFinger, cleanupSeesRef, auxVars>>

\* The POST resolves with a response
ResponseResolve(i, response) ==
  /\ i \in InFlight
  /\ LET outcome == ResponseOutcome(response)
     IN IF outcome.ok
        THEN /\ SubmitSuccess(i, outcome.data)
             /\ lastOp' = "submit:success"
        ELSE /\ SubmitCatch(i, outcome.message)
             /\ lastOp' = "submit:failed"
  /\ UNCHANGED <<baseUrl, requestsSent, chosenFinger, cleanupSeesRef, auxVars>>

\* The POST rejects: transport failure
ResponseReject(i, message) ==
  /\ i \in InFlight
  /\ SubmitCatch(i, message)
  /\ lastOp' = "submit:rejected"
  /\ UNCHANGED <<baseUrl, requestsSent, chosenFinger, cleanupSeesRef, auxVars>>

\* ---------------------------------------------------------- specification
Init ==
  /\ currentView = "method-selection"
  /\ selectedFinger = "index"
  /\ capturedImage = ""
  /\ selectedFile = NoFile
  /\ result = JNull
  /\ error = EmptyString
  /\ baseUrl \in BaseUrls
  /\ handlers = <<>>
  /\ requestsSent = 0
  /\ chosenFinger = "index"
  /\ cams = <<>>
  /\ cleanupSeesRef \in BOOLEAN
  /\ lastOp = "init"
  /\ reply = NoReply
  /\ settings = InitialSettings
  /\ apps = EmptyBag
  /\ applied = NoneApplied
  /\ imageCapture = FALSE
  /\ lastSettled = "none"

Next ==
  \/ handleSelectLiveCapture
  \/ handleSelectUpload
  \/ handleProceedToCamera
  \/ Back
  \/ \E f \in FingerType : SelectFinger(f)
  \/ \E file \in Files \cup {NoFile} : handleFileSelect(file)
  \/ ClickProcessImage
  \/ \E imageData \in ImageData, hasContext \in BOOLEAN : captureImage(imageData, hasContext)
  \/ \E i \in DOMAIN handlers : BlobResolve(i)
  \/ \E i \in DOMAIN handlers, message \in TransportErrors : BlobReject(i, message)
  \/ \E i \in DOMAIN handlers, response \in Responses : ResponseResolve(i, response)
  \/ \E i \in DOMAIN handlers, message \in TransportErrors : ResponseReject(i, message)
  \/ handleRetake
  \/ \E i \in DOMAIN cams, hasCamera \in BOOLEAN : EnumerateDevicesResolve(i, hasCamera)
  \/ \E i \in DOMAIN cams, outcome \in {"stream"} \cup CameraErrorNames : GetUserMediaResolve(i, outcome)
  \/ \E i \in DOMAIN cams, outcome \in {"playing"} \cup CameraErrorNames : PlayResolve(i, outcome)
  \/ \E i \in DOMAIN cams : ApplySettingsResolve(i)

Spec == Init /\ [][Next]_vars

\* handleUploadSubmit called whatever the state of the Process Image button,
\* as a caller other than the button's onClick would
InvokeUploadSubmit ==
  /\ currentView = "upload"
  /\ requestsSent < MaxRequests
  /\ handleUploadSubmit

NextInvoked == Next \/ InvokeUploadSubmit

SpecInvoked == Init /\ [][NextInvoked]_vars

\* ---------------------------------------- specification: the reply handling
\* A request is in flight, of a capture or of an upload, and the endpoint has
\* any reply ready for it.
InitReplies ==
  /\ currentView = "loading"
  /\ selectedFinger \in FingerType
  /\ chosenFinger = selectedFinger
  /\ \E kind \in {"capture", "upload"} :
       /\ capturedImage = (IF kind = "capture" THEN "png-frame" ELSE "")
       /\ selectedFile = (IF kind = "upload" THEN PngFile ELSE NoFile)
       /\ handlers = << [kind |-> kind, pc |-> "response", from |-> OriginView(kind),
                         formData |-> FormData(selectedFinger,
                           IF kind = "capture" THEN CapturedFile ELSE PngFile)] >>
       /\ lastOp = (IF kind = "capture" THEN "handleCapture:sent"
                                         ELSE "handleUploadSubmit:sent")
  /\ result = JNull
  /\ error = EmptyString
  /\ baseUrl = "https://api.example"
  /\ requestsSent = 1
  /\ cams = <<>>
  /\ cleanupSeesRef = TRUE
  /\ reply \in AllResponses
  /\ settings = InitialSettings
  /\ apps = EmptyBag
  /\ applied = NoneApplied
  /\ imageCapture = FALSE
  /\ lastSettled = "none"

\* await fetch(...) resolves with the reply the endpoint had ready
ReplyArrives == \E i \in DOMAIN handlers : ResponseResolve(i, reply)

NextReplies == ReplyArrives

SpecReplies == InitReplies /\ [][NextReplies]_vars

\* ------------------------------------- specification: the Camera's settings
\* The camera view has just been entered, and stays: the Camera component is
\* mounted and its startCamera is waiting for enumerateDevices.
InitCamera ==
  /\ currentView = "camera"
  /\ selectedFinger = "index"
  /\ chosenFinger = "index"
  /\ capturedImage = ""
  /\ selectedFile = NoFile
  /\ result = JNull
  /\ error = EmptyString
  /\ baseUrl = "https://api.example"
  /\ handlers = <<>>
  /\ requestsSent = 0
  /\ cams = <<NewCamera>>
  /\ cleanupSeesRef = TRUE
  /\ lastOp = "handleProceedToCamera"
  /\ reply = NoReply
  /\ settings = InitialSettings
  /\ apps = EmptyBag
  /\ applied = NoneApplied
  /\ imageCapture \in BOOLEAN
  /\ lastSettled = "none"

Settled == {"resolved", "rejected"}

NextCamera ==
  \/ \E i \in DOMAIN cams, hasCamera \in BOOLEAN : EnumerateDevicesResolve(i, hasCamera)
  \/ \E i \in DOMAIN cams, outcome \in {"stream"} \cup CameraErrorNames : GetUserMediaResolve(i, outcome)
  \/ \E i \in DOMAIN cams, outcome \in {"playing"} \cup CameraErrorNames : PlayResolveApply(i, outcome)
  \/ \E i \in DOMAIN cams : ApplySettingsResolve(i)
  \/ \E i \in DOMAIN cams : toggleMacroMode(i)
  \/ \E i \in DOMAIN cams : toggleFlash(i)
  \/ \E i \in DOMAIN cams, value \in IsoValues : ChangeIso(i, value)
  \/ \E i \in DOMAIN cams, value \in ExposureTimes : ChangeExposureTime(i, value)
  \/ \E app \in BagToSet(apps), outcome \in Settled : TorchSettles(app, outcome)
  \/ \E app \in BagToSet(apps), outcome \in Settled : ExposureSettles(app, outcome)
  \/ \E app \in BagToSet(apps), outcome \in Settled : SetOptionsSettles(app, outcome)

SpecCamera == InitCamera /\ [][NextCamera]_vars

\* The camera view with its Capture button: the steps of the Camera and the
\* click on Capture, after which the component is unmounted and only the
\* awaits it left behind settle
NextCapture ==
  \/ NextCamera
  \/ \E imageData \in ImageData, hasContext \in BOOLEAN : captureImage(imageData, hasContext)

SpecCapture == InitCamera /\ [][NextCapture]_vars

\* ------------------------------------------------------------------ claims
LiveTracks == {i \in DOMAIN cams : cams[i].track = "live"}

\* the components whose startCamera is waiting for getUserMedia
Acquiring(cs) == {i \in DOMAIN cs : cs[i].pc = "getUserMedia"}

UploadSubmitOps ==
  {"handleUploadSubmit:noFile", "handleUploadSubmit:notConfigured", "handleUploadSubmit:sent"}

\* the steps in which a submission fails after it was suspended at an await
FailureOps ==
  {"handleCapture:blobFailed", "handleCapture:notConfigured", "submit:failed", "submit:rejected"}

\* C1: at most one submission is in progress at any time, and while one is
\* in progress the view is loading: no second request is issued before the
\* first has resolved.
C1_SingleRequestInFlight ==
  /\ Len(handlers) <= 1
  /\ Cardinality(InFlight) <= 1
  /\ handlers # <<>> => currentView = "loading"

\* a second request is in flight, after the first one resolved
C1_Witness == Cardinality(InFlight) = 1 /\ requestsSent = 2

\* C2: the finger_type of every request built, on the capture and on the
\* upload path, is the finger type the user selected last, whatever
\* navigation happened since the selection.
C2_FingerTypePreserved ==
  \A i \in DOMAIN handlers : handlers[i].formData.finger_type = chosenFinger

\* a capture of the pinky is in flight in a retry after a failed submission
C2_Witness ==
  \E i \in InFlight :
    /\ handlers[i].kind = "capture"
    /\ handlers[i].formData.finger_type = "pinky"
    /\ requestsSent = 2

\* C3: no track acquired by a Camera component that is no longer mounted is
\* live.
C3_NoLiveTrackAfterUnmount ==
  \A i \in DOMAIN cams : ~cams[i].mounted => cams[i].track # "live"

\* C4: a Camera whose startCamera has failed holds no live track.
C4_NoLiveTrackAfterStartFailure ==
  \A i \in DOMAIN cams :
    cams[i].mounted /\ cams[i].pc = "failed" => cams[i].track # "live"

\* C5: in every step in which a startCamera requests a stream (one more
\* component is waiting for getUserMedia), no track acquired earlier is live.
C5_AcquireAfterRelease ==
  [][Cardinality(Acquiring(cams')) > Cardinality(Acquiring(cams))
       => LiveTracks = {}]_vars

\* C6: without a base URL no request is ever sent, and a submission attempt
\* ends in the acquisition view it started from, with an error message set
\* and the Back button on screen.
C6_NotConfiguredIsLocal ==
  baseUrl = NoBaseUrl =>
    /\ requestsSent = 0
    /\ InFlight = {}
    /\ lastOp \notin {"handleUploadSubmit:sent", "handleCapture:sent"}
    /\ lastOp = "handleUploadSubmit:notConfigured" =>
         currentView = "upload" /\ error # EmptyString /\ BackRendered
    /\ lastOp = "handleCapture:notConfigured" =>
         currentView = "camera" /\ error # EmptyString /\ BackRendered

\* a capture has been attempted without a base URL
C6_Witness ==
  /\ baseUrl = NoBaseUrl
  /\ lastOp = "handleCapture:notConfigured"
  /\ currentView = "camera"

\* C7: a step of handleUploadSubmit (an App step, which leaves the cameras
\* alone in the upload view) taken with no file selected sends no
\* request, starts no submission, leaves the view at upload and sets the
\* validation message.
C7_NoFileNoRequest ==
  [][(selectedFile = NoFile /\ lastOp' \in UploadSubmitOps /\ cams' = cams) =>
       /\ requestsSent' = requestsSent
       /\ handlers' = handlers
       /\ currentView = "upload" /\ currentView' = "upload"
       /\ error' = MsgSelectFile]_vars

\* handleUploadSubmit has run with no file selected
C7_Witness ==
  /\ lastOp = "handleUploadSubmit:noFile"
  /\ selectedFile = NoFile
  /\ error = MsgSelectFile

\* C8: right after a file that is not an image was selected, the validation
\* error is shown and the Process Image button is not enabled.
C8_InvalidFileBlocksSubmission ==
  lastOp = "handleFileSelect:rejected" =>
    error = MsgInvalidFile /\ ~ProcessImageEnabled

\* C9: a step in which a submission fails (its handler ends in the catch
\* block) leaves loading for the view the
\* submission was started in, which is camera for a capture and upload for
\* an upload, and sets a non-empty error message.
C9_FailureReturnsToOrigin ==
  [][/\ (lastOp' \in FailureOps /\ handlers' # handlers) =>
          \E i \in DOMAIN handlers :
            /\ handlers' = RemoveAt(handlers, i)
            /\ currentView = "loading"
            /\ currentView' = handlers[i].from
            /\ currentView' = (IF handlers[i].kind = "capture" THEN "camera" ELSE "upload")
            /\ error' # EmptyString
     /\ (lastOp' = "handleUploadSubmit:notConfigured" /\ cams' = cams) =>
          /\ currentView = "upload" /\ currentView' = "upload"
          /\ error' # EmptyString]_vars

\* an upload has failed with a reply of the endpoint and the view is upload
C9_Witness ==
  /\ lastOp = "submit:failed"
  /\ currentView = "upload"
  /\ error # EmptyString

\* C10: right after retake the view is method-selection and the captured
\* still, the selected file, the result and the error message are cleared.
C10_RetakeClears ==
  lastOp = "handleRetake" =>
    /\ currentView = "method-selection"
    /\ capturedImage = ""
    /\ selectedFile = NoFile
    /\ result = JNull
    /\ error = EmptyString

\* retake has run after a successful submission
C10_Witness == lastOp = "handleRetake" /\ requestsSent >= 1


\* a step of a Back button: the only App step that changes the view and
\* nothing else of the App state
BackStep ==
  /\ lastOp' = "back"
  /\ currentView' # currentView
  /\ <<selectedFinger, capturedImage, selectedFile, result, error>>' =
       <<selectedFinger, capturedImage, selectedFile, result, error>>

\* C11 as stated: the Back button of the camera view leads to
\* method-selection, as those of the selection and upload views do.
C11_CameraBackToMethodSelection ==
  [][(BackStep /\ currentView \in {"selection", "camera", "upload"})
       => currentView' = "method-selection"]_vars

\* C11 amended: the Back button of the camera view leads to the finger
\* selection view; those of the selection and upload views lead to
\* method-selection.
C11_CameraBackToSelection ==
  [][/\ (BackStep /\ currentView = "camera") => currentView' = "selection"
     /\ (BackStep /\ currentView \in {"selection", "upload"})
          => currentView' = "method-selection"]_vars

\* Back has been pressed in the camera view: no other Back leads to selection
C11_Witness == lastOp = "back" /\ currentView = "selection"


\* a reply that is not ok has been handled, and its body was a JSON object
ObjectReplyFailed ==
  /\ lastOp = "submit:failed"
  /\ ~Ok(reply.status)
  /\ reply.body.t = "object"

\* C12: after a reply that is not ok and whose body is a JSON object, the
\* error message shown is the object's entry values joined with ". ", arrays
\* rendered as their elements joined with ", " and scalars stringified,
\* whatever the text of the message, on both submission paths. (Stated for
\* the objects whose entries give a message to show.)
C12_MessageIsEntriesJoined ==
  (ObjectReplyFailed /\ ErrorMessages(reply.body) # EmptyString)
    => error = ErrorMessages(reply.body)

\* a reply that is not ok has been handled, and its body could not be parsed
UnparsableReplyFailed ==
  /\ lastOp = "submit:failed"
  /\ ~Ok(reply.status)
  /\ reply.body = Unparsable

\* C13: after a reply that is not ok and whose body cannot be parsed, the
\* error message is the server-error message for a status of at least 500
\* and the retry message for a status in [400,499); the two messages differ
\* and nothing but the status decides between them.
C13_UnparsableByStatus ==
  /\ MsgServerError # MsgRetry
  /\ UnparsableReplyFailed =>
       /\ reply.status >= 500 => error = MsgServerError
       /\ (reply.status >= 400 /\ reply.status < 499) => error = MsgRetry
       /\ error \in {MsgServerError, MsgRetry}

\* an unparsable 500 has been handled on the upload path
C13_Witness ==
  /\ UnparsableReplyFailed
  /\ reply.status = 500
  /\ currentView = "upload"
  /\ error = MsgServerError


\* C14 as stated: in the result view neither the captured still nor the
\* selected file is held any more.
C14_ImageDiscardedOnSuccess ==
  currentView = "result" => (capturedImage = "" /\ selectedFile = NoFile)

\* C14 amended: the image that was submitted is still held in the result
\* view, and neither a still nor a file is held once retake has run.
C14_ImageHeldUntilRetake ==
  /\ currentView = "result" => (capturedImage # "" \/ selectedFile # NoFile)
  /\ lastOp = "handleRetake" => (capturedImage = "" /\ selectedFile = NoFile)

\* the reply to a capture has moved the view to result
C14_Witness ==
  /\ lastOp = "submit:success"
  /\ currentView = "result"
  /\ capturedImage \in ImageData

\* C15: after the Back button of the upload view or of the camera view no
\* selected file and no captured still is held.
C15_BackDiscardsImage ==
  [][(BackStep /\ currentView \in {"camera", "upload"})
       => (capturedImage' = "" /\ selectedFile' = NoFile)]_vars

\* the handlers, and the outcomes of handleUploadSubmit, that navigate forward
ForwardOps ==
  {"handleSelectLiveCapture", "handleSelectUpload", "handleProceedToCamera",
   "handleCapture", "handleUploadSubmit:sent"}

\* C16 as stated: right after choosing live capture, choosing upload,
\* proceeding to the camera, a capture, or an upload submit with a file
\* selected, the error message is empty.
C16_ForwardClearsError ==
  lastOp \in ForwardOps \cup {"handleUploadSubmit:notConfigured"} => error = EmptyString

\* C16 amended: so it is after each of them but the upload submit made
\* without a base URL, which ends with the configuration error set.
C16_ForwardClearsErrorIfConfigured ==
  /\ lastOp \in ForwardOps => error = EmptyString
  /\ lastOp = "handleUploadSubmit:notConfigured" => error = MsgNotConfigured

\* the upload view has been chosen again after a submission failed there
C16_Witness ==
  /\ lastOp = "handleSelectUpload"
  /\ selectedFile # NoFile
  /\ requestsSent >= 1
  /\ result = JNull

\* C17: the view is result if and only if a result payload is stored.
C17_ResultIffPayload == (currentView = "result") <=> (result # JNull)

\* the continuations of a handler suspended at an await
ContinuationOps ==
  {"handleCapture:sent", "handleCapture:notConfigured", "handleCapture:blobFailed",
   "submit:success", "submit:failed", "submit:rejected"}

\* a step of the App flow, as opposed to a step of a camera's startCamera
AppStep ==
  <<appVars, handlers, requestsSent, lastOp>>' # <<appVars, handlers, requestsSent, lastOp>>

\* C18: while the view is loading every step of the App is a continuation of
\* the suspended handler: either the request goes out and the view stays
\* loading, or the handler ends and the view leaves loading for result or
\* for the acquisition view of the submission; the view is loading exactly
\* as long as a handler is suspended.
C18_LoadingOnlyResolves ==
  /\ [](currentView = "loading" <=> handlers # <<>>)
  /\ [][(currentView = "loading" /\ AppStep) =>
          /\ lastOp' \in ContinuationOps
          /\ \E i \in DOMAIN handlers :
               \/ /\ handlers' = [handlers EXCEPT ![i].pc = "response"]
                  /\ currentView' = "loading"
               \/ /\ handlers' = RemoveAt(handlers, i)
                  /\ currentView' \in {"result", handlers[i].from}
                  /\ currentView' # "loading"]_vars

\* the request of a capture was rejected and the view is camera again
C18_Witness ==
  /\ lastOp = "submit:rejected"
  /\ currentView = "camera"
  /\ handlers = <<>>


\* C19: the exposure constraints passed last by the application that a
\* toggle of the mode started are those of the mode toggled into: manual
\* with 2.5, 0 and 400 for macro, continuous with 0 for auto.
C19_ToggleAppliesNewMode ==
  /\ applied.by = "toggleMacroMode:macro" =>
       applied.exposure = [exposureMode |-> "manual", exposureTime |-> 25,
                           exposureCompensation |-> 0, iso |-> 400]
  /\ applied.by = "toggleMacroMode:auto" =>
       applied.exposure = [exposureMode |-> "continuous", exposureCompensation |-> 0]

\* the stream is live, the controls are on screen and no constraint
\* application is in progress
AllApplied ==
  /\ apps = EmptyBag
  /\ \E i \in DOMAIN cams :
       /\ ControlsRendered(i)
       /\ cams[i].track = "live"
       /\ cams[i].pc = "done"

\* C20: when no constraint application is in progress on a live stream, the
\* torch and exposure constraints passed last to the track are those of the
\* state the component displays.
C20_AppliedIsDisplayed ==
  AllApplied =>
    /\ applied.torch = TorchConstraint(settings)
    /\ applied.exposure = ExposureConstraints(settings)


\* a step of a slider: iso or exposureTime changes and the mode does not
SliderStep ==
  /\ settings'.isMacroMode = settings.isMacroMode
  /\ settings'.isFlashOn = settings.isFlashOn
  /\ <<settings'.iso, settings'.exposureTime>> # <<settings.iso, settings.exposureTime>>

\* a step in which an application passes its exposure constraints to the track
ExposurePassed ==
  \E app \in BagToSet(apps) :
    /\ app.pc = "torch"
    /\ apps' = Proceeds(app, "exposure")

\* C21: a change of iso or exposureTime in macro mode on a live stream starts
\* one constraint application whose closure holds the new values, and no
\* manual exposure constraints are passed to the track while the component
\* is in auto mode.
C21_SliderReapplies ==
  [][/\ (SliderStep /\ settings.isMacroMode) =>
          apps' = apps (+) SetToBag({[closure |-> settings', pc |-> "torch",
                                      origin |-> "effect"]})
     /\ (ExposurePassed /\ ~settings.isMacroMode) =>
          applied'.exposure.exposureMode # "manual"]_vars


\* a step in which an await of a constraint application settles
SettleStep == apps' # apps /\ BagCardinality(apps') <= BagCardinality(apps)

\* C22: a rejected constraint does not abort the camera. The step in which
\* an await of an application is rejected leaves every track, permission
\* flag and error message of the Camera as it was, and when it is the torch
\* constraint that is rejected the application goes on to pass its exposure
\* constraints to the track.
C22_RejectionNeverAborts ==
  [][(SettleStep /\ lastSettled' = "rejected") =>
       /\ cams' = cams
       /\ \A app \in BagToSet(apps) :
            (app.pc = "torch" /\ CopiesIn(app, apps') < CopiesIn(app, apps)) =>
              /\ apps' = Proceeds(app, "exposure")
              /\ applied'.exposure = ExposureConstraints(app.closure)]_vars

\* the torch constraint of an application was rejected; the application is
\* waiting for its exposure constraints and the camera is as it was
C22_Witness ==
  /\ lastSettled = "rejected"
  /\ \E app \in BagToSet(apps) : app.pc = "exposure"
  /\ \E i \in DOMAIN cams :
       /\ cams[i].track = "live"
       /\ cams[i].hasPermission
       /\ cams[i].error = EmptyString

\* C23: constraints are passed to a track only once the stream is acquired,
\* attached and playing, and the application that startCamera starts passes
\* the initial settings: torch on, manual exposure with 2.5, 0 and 400.
C23_InitialSettingsOnLiveStream ==
  /\ (applied # NoneApplied \/ apps # EmptyBag) =>
       \E i \in DOMAIN cams :
         /\ cams[i].pc \in {"applySettings", "done"}
         /\ cams[i].srcObject
         /\ cams[i].trackRef
         /\ cams[i].track = "live"
  /\ (applied.by = "none" /\ \A app \in BagToSet(apps) : app.origin = "startCamera") =>
       applied.torch = (IF apps = EmptyBag THEN "none" ELSE "on")
  /\ \A app \in BagToSet(apps) :
       app.origin = "startCamera" =>
         /\ app.closure.isFlashOn
         /\ ExposureConstraints(app.closure) =
              [exposureMode |-> "manual", exposureTime |-> 25,
               exposureCompensation |-> 0, iso |-> 400]
  /\ applied.by = "startCamera" =>
       applied.exposure = [exposureMode |-> "manual", exposureTime |-> 25,
                           exposureCompensation |-> 0, iso |-> 400]

\* the application of startCamera has passed its exposure constraints
C23_Witness ==
  /\ applied.by = "startCamera"
  /\ applied.torch = "on"
  /\ \E app \in BagToSet(apps) : app.origin = "startCamera" /\ app.pc = "exposure"


\* C24: a camera component whose device enumeration found no video input
\* device has failed its start-up: it shows the error message of the missing
\* camera, it has requested no stream (startCamera is not at getUserMedia or
\* beyond, and there is no stream, no track and no attached srcObject), and
\* its permission flag is false (the message is state of the mounted component)
C24_NoCameraFailsStartup ==
  \A i \in DOMAIN cams :
    cams[i].cameras = "none" =>
      /\ cams[i].pc = "failed"
      /\ cams[i].track = "none"
      /\ ~cams[i].trackRef
      /\ ~cams[i].srcObject
      /\ ~cams[i].hasPermission
      /\ cams[i].mounted =>
           /\ cams[i].error = CameraErrorMessage("Error", MsgNoCameraDetected)
           /\ cams[i].error # EmptyString

C24_Witness ==
  \E i \in DOMAIN cams :
    /\ cams[i].cameras = "none"
    /\ cams[i].pc = "failed"
    /\ cams[i].error = <<"Error accessing camera. ">> \o MsgNoCameraDetected

\* The camera on screen has failed its start-up
FailedCamera == MountedCamera # 0 /\ cams[MountedCamera].pc = "failed"

\* The runs of startCamera that have only begun
Starting(cs) == SelectSeq(cs, LAMBDA c : c.pc = "enumerateDevices")

\* C25: while the camera on screen has failed its start-up, the view is camera,
\* its error message is shown, it has no permission and the Capture button is
\* not rendered; a step from such a state starts no submission and, unless it
\* leaves the camera view, leaves the component as it is, failed; and a run of
\* startCamera begins only in a step that enters the camera view from another
\* view
C25_FailedCameraStaysFailed ==
  /\ [](FailedCamera =>
         /\ currentView = "camera"
         /\ cams[MountedCamera].error # EmptyString
         /\ ~cams[MountedCamera].hasPermission
         /\ ~CaptureRendered)
  /\ [][/\ FailedCamera =>
            /\ Len(handlers') <= Len(handlers)
            /\ requestsSent' = requestsSent
            /\ currentView' = "camera" =>
                 /\ MountedCamera' # 0
                 /\ cams'[MountedCamera'] = cams[MountedCamera]
        /\ Len(Starting(cams')) > Len(Starting(cams)) =>
            /\ currentView # "camera"
            /\ currentView' = "camera"
            /\ ~FailedCamera]_vars

C25_Witness ==
  /\ FailedCamera
  /\ cams[MountedCamera].error = CameraErrorMessage("NotReadableError", EmptyString)
  /\ Len(cams) = 2

\* A click on the Capture button that is seen in the state
CaptureStep ==
  /\ CaptureRendered
  /\ lastOp' # lastOp
  /\ lastOp' \in {"handleCapture", "captureImage:noContext"}

\* The capture changes nothing of the component: not its settings, not the
\* applications of constraints, and its permission flag and error message
\* only by the unmount that goes with the controller's change of view
ComponentUntouched ==
  /\ settings' = settings
  /\ apps' = apps
  /\ applied' = applied
  /\ imageCapture' = imageCapture
  /\ cams' = (IF currentView' = currentView THEN cams ELSE SetCurrentView(currentView'))

\* The callback has been called once with the frame: one handler more, at
\* its first await, holding the frame as the file to submit
InvokedOnce ==
  /\ capturedImage' \in ImageData
  /\ handlers' = Append(handlers,
       [kind |-> "capture", pc |-> "blob", from |-> "camera",
        formData |-> FormData(selectedFinger, CapturedFile)])

\* C26 as stated: every click on Capture calls onCapture exactly once with the
\* encoded frame and changes no state of the component, and the view goes to
\* loading by the controller's callback.
C26_CaptureInvokesOnce ==
  [][CaptureStep =>
       /\ InvokedOnce
       /\ ComponentUntouched
       /\ lastOp' = "handleCapture"
       /\ currentView' = "loading"]_vars

\* C26 amended: a click on Capture calls onCapture at most once: exactly once
\* with the encoded frame when the canvas gives a 2d context, and then the
\* controller's callback takes the view to loading; not at all when it gives
\* none, and then nothing changes, the view included. In both cases no state
\* of the component changes.
C26_CaptureInvokesAtMostOnce ==
  [][CaptureStep =>
       /\ ComponentUntouched
       /\ IF lastOp' = "handleCapture"
          THEN /\ InvokedOnce
               /\ currentView' = "loading"
          ELSE /\ handlers' = handlers
               /\ UNCHANGED <<appVars, requestsSent>>]_vars

\* a frame was captured while the settings were not the initial ones and an
\* application of constraints was in progress
C26_Witness ==
  /\ lastOp = "handleCapture"
  /\ currentView = "loading"
  /\ Len(handlers) = 1
  /\ settings # InitialSettings
  /\ apps # EmptyBag
====
